---------------------------- MODULE Spec2Model ----------------------------
(***************************************************************************)
(* Model of the smart-task backend (src/backend): the text classifier      *)
(* analyze_task of logic.py, computed on character sequences as the code   *)
(* computes it, and the request handlers of main.py that call it.          *)
(*                                                                         *)
(* A Python str is a sequence of one-character strings; an Optional[str]   *)
(* is a record [none, s], so that None and "" are different values.        *)
(***************************************************************************)
EXTENDS Integers, Sequences, FiniteSets, TLC

VARIABLES
    \* one call of analyze_task
    text_input,     \* the argument of the call
    result,         \* what the call returned
    pc,             \* "call" before the call, "returned" after it ("idle": no call)
    \* analyze_task called from several request handlers at once
    handler_pc,     \* per handler: "idle", or the section its call is about to run
    local,          \* per handler: the local variables of its call
    heap,           \* the dicts and lists the calls have built, by object identity
    returned,       \* per handler: the result of its last call, as the caller holds it
    calls,          \* how many calls have been started
    \* the API of main.py over the database
    tasks,          \* table "tasks": per id its row, NoRow where there is none
    task_history,   \* table "task_history": the audit entries written
    next_id,        \* the id the database gives the next inserted task
    last,           \* the last request handled: what was asked, answered and done
    \* one call of safe_execute
    retries,        \* the argument retries of the call
    retry_i,        \* the loop variable i of `for i in range(retries)`
    retry_pc,       \* where the call is: "idle" (no call), "for", "try", "except", "sleep", "done"
    executed,       \* what each query.execute() of the call did, in order
    caught,         \* the exception the except clause is handling
    retry_outcome   \* how the call ended: the value returned or the exception raised

classifier_vars == <<text_input, result, pc>>
handler_vars == <<handler_pc, local, heap, returned, calls>>
api_vars == <<tasks, task_history, next_id, last>>
retry_vars == <<retries, retry_i, retry_pc, executed, caught, retry_outcome>>
vars == <<classifier_vars, handler_vars, api_vars, retry_vars>>

---------------------------------------------------------------------------
(* Characters and the str methods the classifier uses.                     *)

LowerAlphabet == <<"a","b","c","d","e","f","g","h","i","j","k","l","m","n","o","p","q","r","s","t","u","v","w","x","y","z">>
UpperAlphabet == <<"A","B","C","D","E","F","G","H","I","J","K","L","M","N","O","P","Q","R","S","T","U","V","W","X","Y","Z">>

Letters == {LowerAlphabet[i] : i \in 1..26} \cup {UpperAlphabet[i] : i \in 1..26}
Whitespace == {" ", "\t", "\n"}
Chars == Letters \cup Whitespace \cup {".", "$"}

\* str.lower() and str.upper() on one character.
LowerOf ==
    [c \in Chars |->
        IF \E i \in 1..26 : UpperAlphabet[i] = c
        THEN LowerAlphabet[CHOOSE i \in 1..26 : UpperAlphabet[i] = c]
        ELSE c]
UpperOf ==
    [c \in Chars |->
        IF \E i \in 1..26 : LowerAlphabet[i] = c
        THEN UpperAlphabet[CHOOSE i \in 1..26 : LowerAlphabet[i] = c]
        ELSE c]

IsSpace(c) == c \in Whitespace
NotSpace(c) == c \notin Whitespace

\* str.lower()
lower(s) == [i \in 1..Len(s) |-> LowerOf[s[i]]]

\* str.title() of a word of letters: first letter upper case, the rest lower.
title(w) == [i \in 1..Len(w) |-> IF i = 1 THEN UpperOf[w[i]] ELSE LowerOf[w[i]]]

\* `w in t` on two strs: w occurs in t as a substring.
Contains(w, t) ==
    \E i \in 1..(Len(t) - Len(w) + 1) : \A j \in 1..Len(w) : t[i + j - 1] = w[j]

\* any(w in t for w in keywords)
any(keywords, t) == \E k \in 1..Len(keywords) : Contains(keywords[k], t)

\* `w in lst` on a list of strs.
InList(w, lst) == \E k \in 1..Len(lst) : lst[k] = w

\* The first position from i on whose character is not in class (Len(t) + 1
\* if none): where a greedy run of class characters starting at i ends.
SpanEnd(t, i, class) ==
    CHOOSE k \in i..(Len(t) + 1) :
        /\ \A m \in i..(k - 1) : t[m] \in class
        /\ k = Len(t) + 1 \/ t[k] \notin class

\* str.split(): the maximal runs of non-whitespace characters, in order.
RECURSIVE SplitFrom(_, _)
SplitFrom(t, i) ==
    LET s == SpanEnd(t, i, Whitespace)
        e == SpanEnd(t, s, Chars \ Whitespace)
    IN  IF s > Len(t) THEN <<>> ELSE <<SubSeq(t, s, e - 1)>> \o SplitFrom(t, e)
split(t) == SplitFrom(t, 1)

---------------------------------------------------------------------------
(* The keyword tables of analyze_task.                                     *)

safety_keywords ==
    << <<"s","a","f","e","t","y">>, <<"h","a","z","a","r","d">>, <<"i","n","s","p","e","c","t","i","o","n">>,
       <<"c","o","m","p","l","i","a","n","c","e">>, <<"m","a","s","k">>, <<"p","p","e">>,
       <<"c","h","e","c","k","l","i","s","t">>, <<"d","a","n","g","e","r">>, <<"i","n","c","i","d","e","n","t">>,
       <<"r","e","p","o","r","t">> >>
technical_keywords ==
    << <<"b","u","g">>, <<"f","i","x">>, <<"e","r","r","o","r">>,
       <<"c","o","d","e">>, <<"i","n","s","t","a","l","l">>, <<"r","e","p","a","i","r">>,
       <<"s","e","r","v","e","r">>, <<"a","p","p">>, <<"c","r","a","s","h">>,
       <<"t","e","c","h","n","i","c","i","a","n">>, <<"r","e","s","o","u","r","c","e","s">>, <<"d","a","t","a","b","a","s","e">>,
       <<"a","p","i">>, <<"d","e","p","l","o","y">> >>
finance_keywords ==
    << <<"p","a","y">>, <<"i","n","v","o","i","c","e">>, <<"b","i","l","l">>,
       <<"b","u","d","g","e","t">>, <<"c","o","s","t">>, <<"e","x","p","e","n","s","e">>,
       <<"p","r","i","c","e">>, <<"$">>, <<"m","o","n","e","y">>,
       <<"a","u","d","i","t">>, <<"a","c","c","o","u","n","t">> >>
scheduling_keywords ==
    << <<"m","e","e","t","i","n","g">>, <<"s","c","h","e","d","u","l","e">>, <<"c","a","l","l">>,
       <<"z","o","o","m">>, <<"t","e","a","m","s">>, <<"a","p","p","o","i","n","t","m","e","n","t">>,
       <<"d","e","a","d","l","i","n","e">>, <<"c","a","l","e","n","d","a","r">>, <<"i","n","v","i","t","e">>,
       <<"e","v","e","n","t">> >>
high_keywords ==
    << <<"u","r","g","e","n","t">>, <<"a","s","a","p">>, <<"i","m","m","e","d","i","a","t","e","l","y">>,
       <<"t","o","d","a","y">>, <<"n","o","w">>, <<"c","r","i","t","i","c","a","l">>,
       <<"e","m","e","r","g","e","n","c","y">>, <<"d","e","a","d","l","i","n","e">>, <<"f","a","i","l">>,
       <<"h","i","g","h">> >>
medium_keywords ==
    << <<"s","o","o","n">>, <<"t","o","m","o","r","r","o","w">>, <<"t","h","i","s"," ","w","e","e","k">>,
       <<"i","m","p","o","r","t","a","n","t">>, <<"r","e","v","i","e","w">>, <<"c","h","e","c","k">>,
       <<"u","p","d","a","t","e">>, <<"m","e","d","i","u","m">> >>
date_keywords ==
    << <<"t","o","d","a","y">>, <<"t","o","m","o","r","r","o","w">>, <<"m","o","n","d","a","y">>,
       <<"t","u","e","s","d","a","y">>, <<"w","e","d","n","e","s","d","a","y">>, <<"t","h","u","r","s","d","a","y">>,
       <<"f","r","i","d","a","y">>, <<"s","a","t","u","r","d","a","y">>, <<"s","u","n","d","a","y">> >>
stop_words ==
    << <<"t","h","e">>, <<"a">>, <<"a","n">>, <<"t","o">>, <<"f","o","r">> >>

\* The alternatives of people_pattern, in the order the pattern lists them.
triggers ==
    << <<"w","i","t","h">>, <<"b","y">>, <<"a","s","s","i","g","n"," ","t","o">>,
       <<"c","o","n","t","a","c","t">>, <<"a","s","k">> >>

actions_map ==
    [scheduling |-> <<"Block calendar", "Send invite", "Prepare agenda", "Set reminder">>,
     finance    |-> <<"Check budget", "Get approval", "Generate invoice", "Update records">>,
     technical  |-> <<"Diagnose issue", "Check resources", "Assign technician", "Document fix">>,
     safety     |-> <<"Conduct inspection", "File report", "Notify supervisor", "Update checklist">>,
     general    |-> <<"Review task", "Set due date", "Prioritize">>]

---------------------------------------------------------------------------
(* analyze_task, section by section.                                       *)

\* `not text_input`: None and the empty str are falsy.
Falsy(x) == x.none \/ Len(x.s) = 0

\* What analyze_task returns for a falsy input.
default_result ==
    [category |-> "general", priority |-> "low",
     extracted_entities |-> [dates |-> <<>>, people |-> <<>>],
     suggested_actions |-> <<"Review task">>]

\* A variant of category: the lists tried in the order scheduling, finance,
\* technical, safety (a dict of keyword lists walked from its first key).
category_scheduling_first(text_lower) ==
    IF any(scheduling_keywords, text_lower) THEN "scheduling"
    ELSE IF any(finance_keywords, text_lower) THEN "finance"
    ELSE IF any(technical_keywords, text_lower) THEN "technical"
    ELSE IF any(safety_keywords, text_lower) THEN "safety"
    ELSE "general"

\* 1. the if/elif chain over the category keyword lists.
category(text_lower) ==
    IF any(safety_keywords, text_lower) THEN "safety"
    ELSE IF any(technical_keywords, text_lower) THEN "technical"
    ELSE IF any(finance_keywords, text_lower) THEN "finance"
    ELSE IF any(scheduling_keywords, text_lower) THEN "scheduling"
    ELSE "general"

\* A variant of priority: the medium list tested before the high list.
priority_medium_first(text_lower) ==
    IF any(medium_keywords, text_lower) THEN "medium"
    ELSE IF any(high_keywords, text_lower) THEN "high"
    ELSE "low"

\* 2. the if/elif over the two priority keyword lists.
priority(text_lower) ==
    IF any(high_keywords, text_lower) THEN "high"
    ELSE IF any(medium_keywords, text_lower) THEN "medium"
    ELSE "low"

\* One alternative of people_pattern tried at position i (re.IGNORECASE):
\* the trigger, \s+, then ([a-zA-Z]+); both repeats are greedy, and giving
\* whitespace back never helps, since the character after it must be a letter.
TryTrigger(t, i, trig) ==
    IF /\ i + Len(trig) - 1 <= Len(t)
       /\ \A j \in 1..Len(trig) : LowerOf[t[i + j - 1]] = trig[j]
    THEN LET a == i + Len(trig)
             b == SpanEnd(t, a, Whitespace)
             c == SpanEnd(t, b, Letters)
         IN  [ok |-> b > a /\ c > b, capture |-> SubSeq(t, b, c - 1), end |-> c]
    ELSE [ok |-> FALSE, capture |-> <<>>, end |-> i]

\* people_pattern at position i: the first alternative that matches.
MatchAt(t, i) ==
    LET hits == {k \in 1..Len(triggers) : TryTrigger(t, i, triggers[k]).ok}
    IN  IF hits = {}
        THEN [ok |-> FALSE, capture |-> <<>>, end |-> i]
        ELSE TryTrigger(t, i, triggers[CHOOSE k \in hits : \A m \in hits : k <= m])

\* people_pattern.findall(t): leftmost matches, each search resuming where the
\* previous match ended.
RECURSIVE FindAllFrom(_, _)
FindAllFrom(t, i) ==
    IF i > Len(t) THEN <<>>
    ELSE LET m == MatchAt(t, i)
         IN  IF m.ok THEN <<m.capture>> \o FindAllFrom(t, m.end)
             ELSE FindAllFrom(t, i + 1)
people_pattern_findall(t) == FindAllFrom(t, 1)

\* A variant of clean_people: the filter compares the capture as written,
\* without lower-casing it.
RECURSIVE clean_people_case_sensitive(_)
clean_people_case_sensitive(matches) ==
    IF matches = <<>> THEN <<>>
    ELSE LET match == Head(matches)
             keep == /\ ~InList(match, date_keywords)
                     /\ ~InList(match, stop_words)
         IN  (IF keep THEN <<title(match)>> ELSE <<>>)
                 \o clean_people_case_sensitive(Tail(matches))

\* The filter loop over the matches.
RECURSIVE clean_people(_)
clean_people(matches) ==
    IF matches = <<>> THEN <<>>
    ELSE LET match == Head(matches)
             keep == /\ ~InList(lower(match), date_keywords)
                     /\ ~InList(lower(match), stop_words)
         IN  (IF keep THEN <<title(match)>> ELSE <<>>) \o clean_people(Tail(matches))

\* 3. extracted_entities["people"]
people(text) == clean_people(people_pattern_findall(text))

\* A variant of dates: a word is kept when a date keyword occurs in it.
dates_substring(text_lower) ==
    SelectSeq(split(text_lower), LAMBDA word : any(date_keywords, word))

\* 3. extracted_entities["dates"]
dates(text_lower) ==
    SelectSeq(split(text_lower), LAMBDA word : InList(word, date_keywords))

\* 4. actions_map.get(category, ["Review task"])
suggested_actions(cat) ==
    IF cat \in DOMAIN actions_map THEN actions_map[cat] ELSE <<"Review task">>

analyze_task(arg) ==
    IF Falsy(arg) THEN default_result
    ELSE LET text_lower == lower(arg.s)
             cat == category(text_lower)
         IN  [category |-> cat,
              priority |-> priority(text_lower),
              extracted_entities |->
                  [dates |-> dates(text_lower), people |-> people(arg.s)],
              suggested_actions |-> suggested_actions(cat)]

---------------------------------------------------------------------------
(* The inputs of the classifier: None, and the texts of up to MaxWords     *)
(* words of one word pool, joined by single spaces.                        *)

MaxWords == 4

CategoryWords ==
    << <<"S","a","f","e","t","y">>, <<"c","a","l","l">>, <<"b","u","g">>, <<"b","u","d","g","e","t">>, <<"t","o","d","a","y">> >>
PriorityWords ==
    << <<"u","r","g","e","n","t">>, <<"r","e","v","i","e","w">>, <<"i","m","m","e","d","i","a","t","e">>, <<"t","h","i","s">>, <<"w","e","e","k">> >>
PeopleWords ==
    << <<"c","a","l","l">>, <<"b","y">>, <<"R","a","j">>, <<"c","o","n","t","a","c","t">>, <<"w","i","t","h">> >>
FilterWords ==
    << <<"b","y">>, <<"t","h","e">>, <<"r","a","J">>, <<"t","o","m","o","r","r","o","w">>, <<"t","o">> >>
DateWords ==
    << <<"t","o","d","a","y">>, <<"t","o","m","o","r","r","o","w",".">>, <<"F","r","i","d","a","y">>, <<"a","s","s","i","g","n">>, <<"t","o">> >>

MiscWords ==
    << <<"a","s","k">>, <<"M","o","n","d","a","y","s">>, <<"t","e","a","m">>, <<"n","e","a","r","b","y">>, <<"m","e","e","t">> >>

WordPools ==
    <<CategoryWords, PriorityWords, PeopleWords, FilterWords, DateWords, MiscWords>>

RECURSIVE Join(_)
Join(ws) ==
    IF Len(ws) = 0 THEN <<>>
    ELSE IF Len(ws) = 1 THEN ws[1]
    ELSE ws[1] \o <<" ">> \o Join(Tail(ws))

None == [none |-> TRUE, s |-> <<>>]
Str(s) == [none |-> FALSE, s |-> s]

Texts ==
    UNION {{Join([i \in 1..n |-> WordPools[p][f[i]]]) :
                f \in [1..n -> 1..Len(WordPools[p])]} :
           n \in 0..MaxWords, p \in 1..Len(WordPools)}

Inputs == {None} \cup {Str(t) : t \in Texts}

W_call_by_Raj == <<"c","a","l","l"," ","b","y"," ","R","a","j">>
W_Safety_call_today == <<"S","a","f","e","t","y"," ","c","a","l","l"," ","t","o","d","a","y">>
W_Raj == <<"R","a","j">>
NoResult == [category |-> "", priority |-> "",
             extracted_entities |-> [dates |-> <<>>, people |-> <<>>],
             suggested_actions |-> <<>>]

---------------------------------------------------------------------------
(* One call of analyze_task on an input of Inputs.                         *)

Analyze ==
    /\ pc = "call"
    /\ result' = analyze_task(text_input)
    /\ pc' = "returned"
    /\ UNCHANGED <<text_input, handler_vars, api_vars, retry_vars>>

---------------------------------------------------------------------------
(* analyze_task called by several request handlers at once. A call runs    *)
(* section by section; the dict extracted_entities and the list            *)
(* suggested_actions are objects on the heap, named by their identity, and *)
(* a result holds references to them. Between two calls a caller may       *)
(* change the result it holds.                                             *)

NumHandlers == 2
MaxCalls == 3

Handlers == 1..NumHandlers
Slots == {1, 2}
Kinds == {"entities", "actions"}
Addresses == Handlers \X Slots \X Kinds
NullRef == <<0, 0, "">>

HandlerInputs == {None, Str(W_call_by_Raj), Str(W_Safety_call_today)}

\* A variant of fresh_object: one object per kind, shared by every call (a
\* dict or list built once at module level).
shared_object(h, slot, kind) == <<1, 1, kind>>

\* The identity of the object a dict or list display builds: a new object at
\* every evaluation, here the one of handler h's slot not in use.
fresh_object(h, slot, kind) == <<h, slot, kind>>

empty_entities == [dates |-> <<>>, people |-> <<>>]
Unbuilt(kind) == IF kind = "entities" THEN empty_entities ELSE <<>>

NoLocal == [text_input |-> None, category |-> "", priority |-> "", slot |-> 1,
            extracted_entities |-> NullRef, suggested_actions |-> NullRef]
NoReturn == [held |-> FALSE, text_input |-> None, category |-> "", priority |-> "",
             extracted_entities |-> NullRef, suggested_actions |-> NullRef,
             slot |-> 1, mutated |-> FALSE, earlier_mutated |-> FALSE]

\* The slot whose objects no result of handler h refers to.
FreeSlot(h) == IF returned[h].held /\ returned[h].slot = 1 THEN 2 ELSE 1

\* The caller drops the result it held: its objects are garbage.
Collect(hp, old) ==
    IF old.held
    THEN [a \in Addresses |->
             IF a \in {old.extracted_entities, old.suggested_actions}
             THEN Unbuilt(a[3]) ELSE hp[a]]
    ELSE hp

\* Handler h receives the tuple its call returns in place of the one it held.
Receive(h, loc, ent, act) ==
    [held |-> TRUE, text_input |-> loc.text_input, category |-> loc.category,
     priority |-> loc.priority, extracted_entities |-> ent,
     suggested_actions |-> act, slot |-> loc.slot, mutated |-> FALSE,
     earlier_mutated |-> returned[h].mutated]

\* Handler h calls analyze_task(x). Lines 3-35: a falsy input returns the
\* default at once, in a new dict and a new list; otherwise text_lower,
\* category and priority are computed, all local.
Call(h, x) ==
    /\ handler_pc[h] = "idle"
    /\ calls < MaxCalls
    /\ calls' = calls + 1
    /\ IF Falsy(x)
       THEN LET ent == fresh_object(h, FreeSlot(h), "entities")
                act == fresh_object(h, FreeSlot(h), "actions")
                loc == [NoLocal EXCEPT !.text_input = x,
                                       !.category = default_result.category,
                                       !.priority = default_result.priority,
                                       !.slot = FreeSlot(h)]
            IN  /\ heap' = [Collect(heap, returned[h]) EXCEPT
                               ![ent] = default_result.extracted_entities,
                               ![act] = default_result.suggested_actions]
                /\ returned' = [returned EXCEPT ![h] = Receive(h, loc, ent, act)]
                /\ UNCHANGED <<handler_pc, local>>
       ELSE /\ local' = [local EXCEPT ![h] =
                            [NoLocal EXCEPT !.text_input = x,
                                            !.category = category(lower(x.s)),
                                            !.priority = priority(lower(x.s)),
                                            !.slot = FreeSlot(h)]]
            /\ handler_pc' = [handler_pc EXCEPT ![h] = "entities"]
            /\ UNCHANGED <<heap, returned>>
    /\ UNCHANGED <<classifier_vars, api_vars, retry_vars>>

\* Lines 38-41: extracted_entities = {"dates": [], "people": []}
MakeEntities(h) ==
    /\ handler_pc[h] = "entities"
    /\ LET ent == fresh_object(h, local[h].slot, "entities")
       IN  /\ heap' = [heap EXCEPT ![ent] = empty_entities]
           /\ local' = [local EXCEPT ![h].extracted_entities = ent]
    /\ handler_pc' = [handler_pc EXCEPT ![h] = "people"]
    /\ UNCHANGED <<returned, calls, classifier_vars, api_vars, retry_vars>>

\* Lines 45-55: extracted_entities["people"] = clean_people
ExtractPeople(h) ==
    /\ handler_pc[h] = "people"
    /\ heap' = [heap EXCEPT ![local[h].extracted_entities].people =
                                people(local[h].text_input.s)]
    /\ handler_pc' = [handler_pc EXCEPT ![h] = "dates"]
    /\ UNCHANGED <<local, returned, calls, classifier_vars, api_vars, retry_vars>>

\* Line 58: extracted_entities["dates"] = [...]
ExtractDates(h) ==
    /\ handler_pc[h] = "dates"
    /\ heap' = [heap EXCEPT ![local[h].extracted_entities].dates =
                                dates(lower(local[h].text_input.s))]
    /\ handler_pc' = [handler_pc EXCEPT ![h] = "actions"]
    /\ UNCHANGED <<local, returned, calls, classifier_vars, api_vars, retry_vars>>

\* Lines 61-68: actions_map is built, and suggested_actions is its list for
\* the category.
SuggestActions(h) ==
    /\ handler_pc[h] = "actions"
    /\ LET act == fresh_object(h, local[h].slot, "actions")
       IN  /\ heap' = [heap EXCEPT ![act] = suggested_actions(local[h].category)]
           /\ local' = [local EXCEPT ![h].suggested_actions = act]
    /\ handler_pc' = [handler_pc EXCEPT ![h] = "return"]
    /\ UNCHANGED <<returned, calls, classifier_vars, api_vars, retry_vars>>

\* Line 70: return category, priority, extracted_entities, suggested_actions
Return(h) ==
    /\ handler_pc[h] = "return"
    /\ returned' = [returned EXCEPT ![h] =
                       Receive(h, local[h], local[h].extracted_entities,
                               local[h].suggested_actions)]
    /\ heap' = Collect(heap, returned[h])
    /\ local' = [local EXCEPT ![h] = NoLocal]
    /\ handler_pc' = [handler_pc EXCEPT ![h] = "idle"]
    /\ UNCHANGED <<calls, classifier_vars, api_vars, retry_vars>>

\* Between two calls the caller changes the result it holds: it appends to
\* the people list of the dict and to the list of actions.
MutateResult(h) ==
    /\ handler_pc[h] = "idle"
    /\ returned[h].held
    /\ ~returned[h].mutated
    /\ heap' = [heap EXCEPT
                   ![returned[h].extracted_entities].people = Append(@, <<"X">>),
                   ![returned[h].suggested_actions] = Append(@, "Changed")]
    /\ returned' = [returned EXCEPT ![h].mutated = TRUE]
    /\ UNCHANGED <<handler_pc, local, calls, classifier_vars, api_vars, retry_vars>>

---------------------------------------------------------------------------
(* The request handlers of main.py. A handler runs as one step. Each call  *)
(* of safe_execute in it either returns the data or raises the network     *)
(* error it could not retry away; the handler's outcome names the call     *)
(* that failed, if one did.                                                *)

MaxTasks == 1

TaskIds == 1..MaxTasks

\* Optional[str] fields holding a label (category, priority, status).
NoLabel == [none |-> TRUE, s |-> ""]
Label(s) == [none |-> FALSE, s |-> s]

\* The truth value Python gives an Optional[str]: None and "" are false.
Truthy(x) == ~x.none /\ x.s # ""

W_Safety_today == <<"S","a","f","e","t","y"," ","t","o","d","a","y">>

Titles == {W_call_by_Raj}
Descriptions == {None, Str(W_Safety_today)}
CreateRequests ==
    [title : Titles, description : Descriptions,
     category : {NoLabel, Label(""), Label("finance")},
     priority : {NoLabel, Label(""), Label("high")}]
\* The requests of specification SpecApi: those that leave both fields to
\* the classifier and those that supply both.
PlainCreateRequests ==
    {r \in CreateRequests :
        \/ r.category = NoLabel /\ r.priority = NoLabel
        \/ r.category = Label("finance") /\ r.priority = Label("high")}
UpdateRequests ==
    [status : {NoLabel, Label("completed"), Label("in_progress")},
     category : {NoLabel, Label("finance")}]

NoRequest == [title |-> <<>>, description |-> None, category |-> NoLabel,
              priority |-> NoLabel]
NoRow == [id |-> 0, title |-> <<>>, description |-> None, category |-> "",
          priority |-> "", extracted_entities |-> empty_entities,
          suggested_actions |-> <<>>, status |-> ""]
NoLast == [op |-> "", task_id |-> 0, request |-> NoRequest, code |-> 0,
           body |-> NoRow, events |-> <<>>]

\* f"{task.title} {task.description or ''}"
full_text(task) ==
    task.title \o <<" ">> \o (IF Falsy(task.description) THEN <<>> ELSE task.description.s)

\* analyze_task(f"{task.title} {task.description or ''}"), tabulated per
\* request so that it is computed once.
RECURSIVE Tabulate(_)
Tabulate(requests) ==
    IF requests = {} THEN <<>>
    ELSE LET task == CHOOSE r \in requests : TRUE
         IN  (task :> analyze_task(Str(full_text(task)))) @@ Tabulate(requests \ {task})
classification == Tabulate(CreateRequests)

\* A variant of final_category: the classifier's category, whatever the
\* caller supplied.
final_category_classifier(task, cat) == cat

\* create_task's final_category, by the branch taken.
final_category(task, cat) ==
    IF ~Truthy(task.category) \/ ~Truthy(task.priority)
    THEN (IF Truthy(task.category) THEN task.category.s ELSE cat)
    ELSE task.category.s

\* create_task's final_priority, by the branch taken.
final_priority(task, prio) ==
    IF ~Truthy(task.category) \/ ~Truthy(task.priority)
    THEN (IF Truthy(task.priority) THEN task.priority.s ELSE prio)
    ELSE task.priority.s

\* log_history: one insert into task_history; when it fails the exception is
\* caught and printed, and nothing is written.
log_history(history, task_id, action, written) ==
    IF written
    THEN history \cup {[task_id |-> task_id, action |-> action]}
    ELSE history

\* POST /api/tasks
CreateTask(task, outcome) ==
    /\ next_id <= MaxTasks
    /\ LET row == [id |-> next_id, title |-> task.title,
                   description |-> task.description,
                   category |-> final_category(task, classification[task].category),
                   priority |-> final_priority(task, classification[task].priority),
                   extracted_entities |-> classification[task].extracted_entities,
                   suggested_actions |-> classification[task].suggested_actions,
                   status |-> "pending"]
       IN  IF outcome = "insert_failed"
           THEN /\ last' = [NoLast EXCEPT !.op = "create_task", !.request = task,
                                          !.code = 500]
                /\ UNCHANGED <<tasks, next_id, task_history>>
           ELSE /\ tasks' = [tasks EXCEPT ![next_id] = row]
                /\ next_id' = next_id + 1
                /\ task_history' = log_history(task_history, next_id, "created",
                                               outcome # "log_failed")
                /\ last' = [op |-> "create_task", task_id |-> next_id,
                            request |-> task, code |-> 200, body |-> row,
                            events |-> <<"db_change", "log_history">>]
    /\ UNCHANGED <<classifier_vars, handler_vars, retry_vars>>

\* POST /api/classify
PreviewClassification(task) ==
    /\ last' = [NoLast EXCEPT
                   !.op = "preview_classification", !.request = task, !.code = 200,
                   !.body = [NoRow EXCEPT
                       !.category = classification[task].category,
                       !.priority = classification[task].priority,
                       !.extracted_entities = classification[task].extracted_entities,
                       !.suggested_actions = classification[task].suggested_actions]]
    /\ UNCHANGED <<tasks, task_history, next_id, classifier_vars, handler_vars, retry_vars>>

\* GET /api/tasks/{task_id}
GetTaskDetail(task_id, outcome) ==
    /\ last' = IF outcome = "select_failed"
               THEN [NoLast EXCEPT !.op = "get_task_detail", !.task_id = task_id,
                                   !.code = 500]
               ELSE IF tasks[task_id] = NoRow
               THEN [NoLast EXCEPT !.op = "get_task_detail", !.task_id = task_id,
                                   !.code = 404]
               ELSE [NoLast EXCEPT !.op = "get_task_detail", !.task_id = task_id,
                                   !.code = 200, !.body = tasks[task_id]]
    /\ UNCHANGED <<tasks, task_history, next_id, classifier_vars, handler_vars, retry_vars>>

\* The action update_task logs: "updated" unless the status changes.
update_action(old_task, updates) ==
    IF ~updates.status.none /\ updates.status.s # old_task.status
    THEN (IF updates.status.s = "completed" THEN "completed" ELSE "status_changed")
    ELSE "updated"

\* PATCH /api/tasks/{task_id}
UpdateTask(task_id, updates, outcome) ==
    LET old_task == tasks[task_id]
        answer(code) == [NoLast EXCEPT !.op = "update_task", !.task_id = task_id,
                                       !.code = code]
        new_task == [old_task EXCEPT
                        !.status = IF updates.status.none THEN @ ELSE updates.status.s,
                        !.category = IF updates.category.none THEN @
                                     ELSE updates.category.s]
    IN  /\ IF outcome = "select_failed" THEN
               /\ last' = answer(500)
               /\ UNCHANGED <<tasks, task_history>>
           ELSE IF old_task = NoRow THEN
               /\ last' = answer(404)
               /\ UNCHANGED <<tasks, task_history>>
           ELSE IF updates.status.none /\ updates.category.none THEN
               \* {"message": "No changes sent"}
               /\ last' = answer(200)
               /\ UNCHANGED <<tasks, task_history>>
           ELSE IF outcome = "update_failed" THEN
               /\ last' = answer(500)
               /\ UNCHANGED <<tasks, task_history>>
           ELSE
               /\ tasks' = [tasks EXCEPT ![task_id] = new_task]
               /\ task_history' = log_history(task_history, task_id,
                                              update_action(old_task, updates),
                                              outcome # "log_failed")
               /\ last' = [answer(200) EXCEPT !.body = new_task,
                               !.events = <<"db_change", "log_history">>]
        /\ UNCHANGED <<next_id, classifier_vars, handler_vars, retry_vars>>

\* DELETE /api/tasks/{task_id}
DeleteTask(task_id, outcome) ==
    /\ IF outcome = "delete_failed" THEN
           /\ last' = [NoLast EXCEPT !.op = "delete_task", !.task_id = task_id,
                                     !.code = 500]
           /\ UNCHANGED tasks
       ELSE
           /\ tasks' = [tasks EXCEPT ![task_id] = NoRow]
           /\ last' = [NoLast EXCEPT !.op = "delete_task", !.task_id = task_id,
                           !.code = 200,
                           !.events = IF tasks[task_id] = NoRow THEN <<>>
                                      ELSE <<"db_change">>]
    /\ UNCHANGED <<task_history, next_id, classifier_vars, handler_vars, retry_vars>>

---------------------------------------------------------------------------
(* safe_execute of main.py: the retry loop around query.execute(), one     *)
(* step per statement. What each query.execute() does (rows, a network     *)
(* error, another error) is the environment's choice.                      *)

\* `retries=3`: the value every caller in main.py leaves retries at.
DefaultRetries == 3

\* The largest value of retries a call is made with.
MaxRetries == 4

RetryArgs == 0..MaxRetries

\* The exceptions the except clause names, and exceptions it does not name.
NetworkErrors == {"ReadError", "ConnectError", "PoolTimeout"}
OtherErrors == {"APIError", "ReadTimeout"}

\* What query.execute().data can be: no rows, or rows.
QueryData == {<<>>, <<"row">>}

NoException == "none"

\* What one query.execute() can do: give data, or raise.
Succeeded(data) == [kind |-> "data", data |-> data, error |-> NoException]
Failed(e) == [kind |-> "raise", data |-> <<>>, error |-> e]
Executions ==
    {Succeeded(data) : data \in QueryData}
        \cup {Failed(e) : e \in NetworkErrors \cup OtherErrors}

\* How a call of safe_execute ends, and the value of a call still running.
Returns(data) == [kind |-> "return", data |-> data, error |-> NoException]
Raises(e) == [kind |-> "raise", data |-> <<>>, error |-> e]
Running == [kind |-> "running", data |-> <<>>, error |-> NoException]

\* The test made one iteration late: the loop ends before it is ever true.
last_attempt_off_by_one(n, k) == n = k

\* `if i == retries - 1`
last_attempt(n, k) == n = k - 1

\* `for i in range(retries)`: the next i, or the loop is over: `return []`.
\* Before the first iteration i is unbound, modelled as -1.
ForLoop ==
    /\ retry_pc = "for"
    /\ IF retry_i + 1 < retries
       THEN /\ retry_i' = retry_i + 1
            /\ retry_pc' = "try"
            /\ UNCHANGED retry_outcome
       ELSE /\ retry_pc' = "done"
            /\ retry_outcome' = Returns(<<>>)
            /\ UNCHANGED retry_i
    /\ UNCHANGED <<retries, executed, caught>>
    /\ UNCHANGED <<classifier_vars, handler_vars, api_vars>>

\* `return query.execute().data`, where the query does x: the data is
\* returned, a network error enters the except clause, any other exception
\* leaves the function.
Execute(x) ==
    /\ retry_pc = "try"
    /\ executed' = Append(executed, x)
    /\ IF x.kind = "data"
       THEN /\ retry_pc' = "done"
            /\ retry_outcome' = Returns(x.data)
            /\ UNCHANGED caught
       ELSE IF x.error \in NetworkErrors
       THEN /\ retry_pc' = "except"
            /\ caught' = x.error
            /\ UNCHANGED retry_outcome
       ELSE /\ retry_pc' = "done"
            /\ retry_outcome' = Raises(x.error)
            /\ UNCHANGED caught
    /\ UNCHANGED <<retries, retry_i>>
    /\ UNCHANGED <<classifier_vars, handler_vars, api_vars>>

\* `if i == retries - 1: raise`
Except ==
    /\ retry_pc = "except"
    /\ IF last_attempt(retry_i, retries)
       THEN /\ retry_pc' = "done"
            /\ retry_outcome' = Raises(caught)
       ELSE /\ retry_pc' = "sleep"
            /\ UNCHANGED retry_outcome
    /\ UNCHANGED <<retries, retry_i, executed, caught>>
    /\ UNCHANGED <<classifier_vars, handler_vars, api_vars>>

\* `time.sleep(0.2)`, the end of the except clause, and back to the for.
Sleep ==
    /\ retry_pc = "sleep"
    /\ retry_pc' = "for"
    /\ caught' = NoException
    /\ UNCHANGED <<retries, retry_i, executed, retry_outcome>>
    /\ UNCHANGED <<classifier_vars, handler_vars, api_vars>>

---------------------------------------------------------------------------
(* The specifications.                                                     *)

ClassifierStart ==
    /\ text_input = None
    /\ result = NoResult
    /\ pc = "idle"

HandlersIdle ==
    /\ handler_pc = [h \in Handlers |-> "idle"]
    /\ local = [h \in Handlers |-> NoLocal]
    /\ heap = [a \in Addresses |-> Unbuilt(a[3])]
    /\ returned = [h \in Handlers |-> NoReturn]
    /\ calls = 0

ApiStart ==
    /\ tasks = [id \in TaskIds |-> NoRow]
    /\ task_history = {}
    /\ next_id = 1
    /\ last = NoLast

RetryIdle ==
    /\ retries = DefaultRetries
    /\ retry_i = -1
    /\ retry_pc = "idle"
    /\ executed = <<>>
    /\ caught = NoException
    /\ retry_outcome = Running

\* One call of analyze_task on an input of Inputs.
Init ==
    /\ text_input \in Inputs
    /\ result = NoResult
    /\ pc = "call"
    /\ HandlersIdle
    /\ ApiStart
    /\ RetryIdle

Next == Analyze

Spec == Init /\ [][Next]_vars

\* Up to MaxCalls calls of analyze_task by NumHandlers handlers, interleaved.
InitHandlers == ClassifierStart /\ HandlersIdle /\ ApiStart /\ RetryIdle

NextHandlers ==
    \E h \in Handlers :
        \/ \E x \in HandlerInputs : Call(h, x)
        \/ MakeEntities(h)
        \/ ExtractPeople(h)
        \/ ExtractDates(h)
        \/ SuggestActions(h)
        \/ Return(h)
        \/ MutateResult(h)

SpecHandlers == InitHandlers /\ [][NextHandlers]_vars

\* The create path: tasks created, and classifications previewed, from every
\* request of CreateRequests.
InitApi == ClassifierStart /\ HandlersIdle /\ ApiStart /\ RetryIdle

NextCreate ==
    \/ \E task \in CreateRequests, outcome \in {"ok", "insert_failed", "log_failed"} :
           CreateTask(task, outcome)
    \/ \E task \in CreateRequests : PreviewClassification(task)

SpecCreate == InitApi /\ [][NextCreate]_vars

\* The whole API, on up to MaxTasks tasks.
NextApi ==
    \/ \E task \in PlainCreateRequests,
          outcome \in {"ok", "insert_failed", "log_failed"} :
           CreateTask(task, outcome)
    \/ \E task \in PlainCreateRequests : PreviewClassification(task)
    \/ \E task_id \in TaskIds, outcome \in {"ok", "select_failed"} :
           GetTaskDetail(task_id, outcome)
    \/ \E task_id \in TaskIds, updates \in UpdateRequests,
          outcome \in {"ok", "select_failed", "update_failed", "log_failed"} :
           UpdateTask(task_id, updates, outcome)
    \/ \E task_id \in TaskIds, outcome \in {"ok", "delete_failed"} :
           DeleteTask(task_id, outcome)

SpecApi == InitApi /\ [][NextApi]_vars

\* One call of safe_execute with retries drawn from RetryArgs. The call is
\* ordinary sequential code: the statement it has reached is executed, and
\* query.execute() and time.sleep() return or raise.
InitRetry ==
    /\ ClassifierStart
    /\ HandlersIdle
    /\ ApiStart
    /\ retries \in RetryArgs
    /\ retry_i = -1
    /\ retry_pc = "for"
    /\ executed = <<>>
    /\ caught = NoException
    /\ retry_outcome = Running

NextRetry ==
    \/ ForLoop
    \/ \E x \in Executions : Execute(x)
    \/ Except
    \/ Sleep

SpecRetry == InitRetry /\ [][NextRetry]_vars /\ WF_vars(NextRetry)

---------------------------------------------------------------------------
(* Properties of one call of analyze_task (specification Spec).            *)

Returned == pc = "returned"

\* The text of the call (empty for None) and its lower-cased view.
Text == text_input.s
TextLower == lower(text_input.s)

W_urgent == <<"u","r","g","e","n","t">>
W_review == <<"r","e","v","i","e","w">>
W_tomorrow_ == <<"t","o","m","o","r","r","o","w",".">>

\* C1: for an empty or absent input analyze_task returns category general,
\* priority low, no people, no dates and the three actions "Review task",
\* "Set due date", "Prioritize".
EmptyInputDefault ==
    (Returned /\ Falsy(text_input)) =>
        result = [category |-> "general", priority |-> "low",
                  extracted_entities |-> [dates |-> <<>>, people |-> <<>>],
                  suggested_actions |->
                      <<"Review task", "Set due date", "Prioritize">>]

CategoryOrder == <<"safety", "technical", "finance", "scheduling">>
KeywordsOf(c) ==
    CASE c = "safety" -> safety_keywords
      [] c = "technical" -> technical_keywords
      [] c = "finance" -> finance_keywords
      [] c = "scheduling" -> scheduling_keywords

\* The places in CategoryOrder whose keyword list has a member occurring in t.
CategoryHits(t) == {i \in 1..Len(CategoryOrder) : any(KeywordsOf(CategoryOrder[i]), t)}

\* C2: for a non-empty input the category is the first of safety, technical,
\* finance, scheduling whose keyword list has a member occurring in the
\* lower-cased text, general when none has; a text with a safety keyword and
\* a scheduling keyword is safety.
CategoryWaterfall ==
    (Returned /\ ~Falsy(text_input)) =>
        LET hits == CategoryHits(TextLower)
        IN  /\ hits = {} => result.category = "general"
            /\ hits # {} =>
                   result.category =
                       CategoryOrder[CHOOSE i \in hits : \A m \in hits : i <= m]
            /\ (1 \in hits /\ 4 \in hits) => result.category = "safety"

\* C2's case: "Safety call today" has a safety and a scheduling keyword.
SafetyBeatsScheduling ==
    /\ Returned
    /\ Text = W_Safety_call_today
    /\ CategoryHits(TextLower) = {1, 4}
    /\ result.category = "safety"

ClaimedHigh ==
    << <<"u","r","g","e","n","t">>, <<"a","s","a","p">>, <<"i","m","m","e","d","i","a","t","e">>,
       <<"i","m","m","e","d","i","a","t","e","l","y">>, <<"c","r","i","t","i","c","a","l">>, <<"d","e","a","d","l","i","n","e">>,
       <<"t","o","d","a","y">>, <<"n","o","w">>, <<"e","m","e","r","g","e","n","c","y">>,
       <<"f","a","i","l">>, <<"h","i","g","h">> >>
ClaimedMedium ==
    << <<"s","o","o","n">>, <<"t","o","m","o","r","r","o","w">>, <<"w","e","e","k">>,
       <<"r","e","v","i","e","w">>, <<"i","m","p","o","r","t","a","n","t">>, <<"c","h","e","c","k">>,
       <<"u","p","d","a","t","e">>, <<"m","e","d","i","u","m">> >>
AmendedHigh ==
    << <<"u","r","g","e","n","t">>, <<"a","s","a","p">>, <<"i","m","m","e","d","i","a","t","e","l","y">>,
       <<"c","r","i","t","i","c","a","l">>, <<"d","e","a","d","l","i","n","e">>, <<"t","o","d","a","y">>,
       <<"n","o","w">>, <<"e","m","e","r","g","e","n","c","y">>, <<"f","a","i","l">>,
       <<"h","i","g","h">> >>
AmendedMedium ==
    << <<"s","o","o","n">>, <<"t","o","m","o","r","r","o","w">>, <<"t","h","i","s"," ","w","e","e","k">>,
       <<"r","e","v","i","e","w">>, <<"i","m","p","o","r","t","a","n","t">>, <<"c","h","e","c","k">>,
       <<"u","p","d","a","t","e">>, <<"m","e","d","i","u","m">> >>

\* C3 as stated: priority is high when the lower-cased text contains one of
\* urgent, asap, immediate, immediately, critical, deadline, today, now,
\* emergency, fail, high; else medium when it contains one of soon, tomorrow,
\* week, review, important, check, update, medium; else low.
PriorityTiersAsClaimed ==
    Returned =>
        result.priority =
            IF any(ClaimedHigh, TextLower) THEN "high"
            ELSE IF any(ClaimedMedium, TextLower) THEN "medium"
            ELSE "low"

\* C3 as amended: the same two tiers with "immediately" (not "immediate") in
\* the high list and "this week" (not "week") in the medium list.
PriorityTiers ==
    Returned =>
        result.priority =
            IF any(AmendedHigh, TextLower) THEN "high"
            ELSE IF any(AmendedMedium, TextLower) THEN "medium"
            ELSE "low"

\* C3's case: a text with a high keyword (urgent) and a medium one (review).
HighBeatsMedium ==
    /\ Returned
    /\ Contains(W_urgent, TextLower)
    /\ Contains(W_review, TextLower)
    /\ result.priority = "high"

\* C4: for every input, the empty one included, the actions returned are the
\* table's entry for the category returned.
ActionsFollowCategory ==
    Returned => result.suggested_actions = actions_map[result.category]

ClaimedTriggerWords ==
    << <<"W","i","t","h">>, <<"B","y">>, <<"A","s","s","i","g","n">>, <<"C","o","n","t","a","c","t">>, <<"A","s","k">> >>

\* C5: no trigger word is ever reported as a person, and "call by Raj" yields
\* people = ["Raj"].
NoTriggerWordInPeople ==
    Returned =>
        LET ppl == result.extracted_entities.people
        IN  /\ \A i \in 1..Len(ppl) : ~InList(ppl[i], ClaimedTriggerWords)
            /\ Text = W_call_by_Raj => ppl = <<W_Raj>>

ClaimedDateWords ==
    << <<"t","o","d","a","y">>, <<"t","o","m","o","r","r","o","w">>, <<"m","o","n","d","a","y">>,
       <<"t","u","e","s","d","a","y">>, <<"w","e","d","n","e","s","d","a","y">>, <<"t","h","u","r","s","d","a","y">>,
       <<"f","r","i","d","a","y">>, <<"s","a","t","u","r","d","a","y">>, <<"s","u","n","d","a","y">> >>
ClaimedStopWords ==
    << <<"t","h","e">>, <<"a">>, <<"a","n">>, <<"t","o">>, <<"f","o","r">> >>

Dropped(capture) ==
    \/ InList(lower(capture), ClaimedDateWords)
    \/ InList(lower(capture), ClaimedStopWords)

RECURSIVE TitleEach(_)
TitleEach(ws) == IF ws = <<>> THEN <<>> ELSE <<title(Head(ws))>> \o TitleEach(Tail(ws))

W_the == <<"t","h","e">>
W_raJ == <<"r","a","J">>

Tokens(t) ==
    LET starts == {i \in 1..Len(t) : NotSpace(t[i]) /\ (i = 1 \/ IsSpace(t[i - 1]))}
        nth(k) == CHOOSE i \in starts : Cardinality({s \in starts : s < i}) = k - 1
        stop(i) == CHOOSE j \in i..Len(t) :
                       /\ \A m \in i..j : NotSpace(t[m])
                       /\ j = Len(t) \/ IsSpace(t[j + 1])
    IN  [k \in 1..Cardinality(starts) |-> SubSeq(t, nth(k), stop(nth(k)))]

\* C7: dates is the subsequence of the whitespace-separated tokens of the
\* lower-cased text that equal a date word, in order, repetitions kept; a
\* token with punctuation attached contributes nothing.
DatesAreDateTokens ==
    Returned =>
        result.extracted_entities.dates =
            SelectSeq(Tokens(TextLower), LAMBDA w : InList(w, ClaimedDateWords))

\* C7's case: a text with the token "tomorrow." and two date tokens, of
\* which only the two are reported.
DatesCase ==
    /\ Returned
    /\ InList(W_tomorrow_, Tokens(TextLower))
    /\ Len(result.extracted_entities.dates) = 2
    /\ \A i \in 1..2 : result.extracted_entities.dates[i] # SubSeq(W_tomorrow_, 1, 8)

---------------------------------------------------------------------------
(* Properties of concurrent calls (specification SpecHandlers).            *)

\* The result a caller holds, with its references followed.
Deref(r) ==
    [category |-> r.category, priority |-> r.priority,
     extracted_entities |-> heap[r.extracted_entities],
     suggested_actions |-> heap[r.suggested_actions]]

\* The results held that their caller has not changed.
Intact == {h \in Handlers : returned[h].held /\ ~returned[h].mutated}

\* C8: under any interleaving, a result a caller holds and has not changed is
\* what an isolated call on its input returns, whatever other calls run or
\* have run and whatever the caller did to an earlier result; so two calls
\* on the same input return the same.
IsolatedResults ==
    /\ \A h \in Intact : Deref(returned[h]) = analyze_task(returned[h].text_input)
    /\ \A g, h \in Intact :
           returned[g].text_input = returned[h].text_input =>
               Deref(returned[g]) = Deref(returned[h])

\* C8's case: a handler holds the intact result of a call made after it
\* changed its earlier result, while another handler is in the middle of a
\* call on a different input, its dict half filled.
IsolatedResultsCase ==
    \E g, h \in Handlers :
        /\ g # h
        /\ g \in Intact
        /\ returned[g].earlier_mutated
        /\ handler_pc[h] = "dates"
        /\ local[h].text_input # returned[g].text_input
        /\ heap[local[h].extracted_entities].people # <<>>

---------------------------------------------------------------------------
(* Properties of the API (specifications SpecCreate and SpecApi).          *)

Created == last.op = "create_task" /\ last.code = 200

\* What the classifier returns for the text of the last request.
Classified == analyze_task(Str(full_text(last.request)))

\* C9 as stated: a category or priority the caller supplied (anything but
\* None) is stored unchanged, the classifier's value is stored for a field
\* left unset, and the entities and actions stored are the classifier's.
SuppliedFieldsKept ==
    Created =>
        LET row == tasks[last.task_id]
        IN  /\ row.category = IF last.request.category.none THEN Classified.category
                              ELSE last.request.category.s
            /\ row.priority = IF last.request.priority.none THEN Classified.priority
                              ELSE last.request.priority.s
            /\ row.extracted_entities = Classified.extracted_entities
            /\ row.suggested_actions = Classified.suggested_actions

\* C9 as amended: a non-empty category or priority the caller supplied is
\* stored unchanged; for a field left unset or supplied as the empty string
\* the classifier's value is stored, each field on its own; the entities and
\* actions stored are the classifier's output for title + " " + description.
NonEmptyFieldsKept ==
    Created =>
        LET row == tasks[last.task_id]
            given(x) == ~x.none /\ x.s # ""
        IN  /\ row = last.body
            /\ row.category = IF given(last.request.category)
                              THEN last.request.category.s ELSE Classified.category
            /\ row.priority = IF given(last.request.priority)
                              THEN last.request.priority.s ELSE Classified.priority
            /\ row.extracted_entities = Classified.extracted_entities
            /\ row.suggested_actions = Classified.suggested_actions

\* C9's case: a task created with a category supplied and the priority left
\* unset keeps the one and gets the classifier's other, with the entities of
\* title and description together.
NonEmptyFieldsKeptCase ==
    /\ Created
    /\ last.request.category = Label("finance")
    /\ last.request.priority = NoLabel
    /\ last.request.description # None
    /\ tasks[last.task_id].category = "finance"
    /\ tasks[last.task_id].category # Classified.category
    /\ tasks[last.task_id].priority = "high"
    /\ tasks[last.task_id].extracted_entities.people = <<W_Raj>>
    /\ tasks[last.task_id].extracted_entities.dates # <<>>

\* C10: every request that changed a task (a create, an update with a field,
\* a delete) made exactly one log_history call, after the change; a request
\* that changed nothing made none.
AuditTracksEveryModification ==
    IF \E i \in 1..Len(last.events) : last.events[i] = "db_change"
    THEN last.events = <<"db_change", "log_history">>
    ELSE last.events = <<>>

---------------------------------------------------------------------------
(* Properties of one call of safe_execute (specification SpecRetry).       *)

Attempts == Len(executed)

NetworkFailure(x) == x.kind = "raise" /\ x.error \in NetworkErrors

\* What the attempts made so far allow, and what a finished call gave back.
RetryOutcome ==
    /\ Attempts <= retries
    /\ \A k \in 1..(Attempts - 1) : NetworkFailure(executed[k])
    /\ retry_pc # "done" => retry_outcome = Running
    /\ retry_pc = "done" =>
           IF Attempts = 0
           THEN retries = 0 /\ retry_outcome = Returns(<<>>)
           ELSE LET x == executed[Attempts]
                IN  IF x.kind = "data" THEN retry_outcome = Returns(x.data)
                    ELSE IF NetworkFailure(x)
                    THEN Attempts = retries /\ retry_outcome = Raises(x.error)
                    ELSE retry_outcome = Raises(x.error)

\* C11: safe_execute is a bounded retry. It executes the query at most
\* retries times; every attempt but the last one made ended in a network
\* error (ReadError, ConnectError, PoolTimeout), so nothing is attempted
\* after a success or after any other exception; a call that ends after a
\* successful attempt returns that attempt's data; a call whose last allowed
\* attempt ends in a network error raises that error and does not return
\* the empty list; and every call ends.
BoundedRetry == []RetryOutcome /\ <>(retry_pc = "done")

\* Witness of C11: with the default retries the query failed three times
\* with a network error and the call raised the last of them.
RetryExhaustedCase ==
    /\ retry_pc = "done"
    /\ retries = DefaultRetries
    /\ executed = <<Failed("ReadError"), Failed("ConnectError"), Failed("PoolTimeout")>>
    /\ retry_outcome = Raises("PoolTimeout")

=============================================================================
